---- MODULE Spec2Model ----
(***************************************************************************)
(* A model of src/src/ai/service.ts: thread-context preparation, the       *)
(* reset after a stream, resume-context validation, the resumable-stream   *)
(* bridge and title generation.                                            *)
(*                                                                         *)
(* The query layer (@/database/queries), Database.transaction and          *)
(* APIError.map are not part of the reviewed source; they are modelled     *)
(* from the specification: every query is one atomic data operation, a     *)
(* transaction applies its writes together or not at all, and a failure    *)
(* that is no APIError leaves a transaction as the generic 500 error.      *)
(* A transaction is two steps: its reads (with the validation that         *)
(* follows them), then its writes with the final history read and the      *)
(* commit. Other requests may run between the two steps.                   *)
(***************************************************************************)
EXTENDS Integers, Sequences, FiniteSets, TLC

VARIABLES
    threads,        \* table thread: id -> row (a partial function)
    messages,       \* table message: id -> row (a partial function)
    clock,          \* the time the next committing transaction stamps its rows with
    proc,           \* per request slot: <<>> when idle, <<locals>> between reads and writes
    ret,            \* <<>> or <<outcome>>: the call that has just returned to its caller
    streamContext,  \* the module-level singleton of getStreamContext
    registry,       \* stream ids the resumable-stream context has registered
    cr,             \* the running createResumableStream call
    gr,             \* the running getResumableStream call
    latch,          \* per latch: the state of the Effect.Latch
    gen,            \* per generateThreadTitle call: <<>> or <<position and locals>>
    waiter          \* per latch: the consumer that awaits it

vars == <<threads, messages, clock, proc, ret, streamContext, registry, cr, gr,
          latch, gen, waiter>>

serviceVars == <<threads, messages, clock, proc, ret>>
streamVars == <<streamContext, registry, cr, gr>>
titleVars == <<latch, gen, waiter>>

----------------------------------------------------------------------------
\* Bounds of the model.

\* Transactions that commit in one behaviour (each stamps its rows with one time).
MaxClock == 5
\* Largest consumed-credit count a usage row holds.
MaxUsage == 2
\* Largest credit cost of a model row.
MaxCost == 2

Users == {"u1", "u2"}
ThreadIds == {"t1", "t2"}
MessageIds == {"m1", "m2", "m3"}
\* "" is the empty string: a stream id that is stored and yet falsy.
StreamIds == {"s1", "s2", ""}
Procs == {"p1", "p2"}

\* null / undefined: an absent value is the empty tuple, a present one <<v>>.
None == <<>>
Some(v) == <<v>>
\* The null of a text column.
Null == "null"

----------------------------------------------------------------------------
\* Tier ceilings (@/lib/constants): Anonymous < Free < Pro.
AnonymousCredits == 1
FreeCredits == 2
ProCredits == 3

AnonymousLimits == [tier |-> "anonymous", CREDITS |-> AnonymousCredits]
FreeLimits == [tier |-> "free", CREDITS |-> FreeCredits]
ProLimits == [tier |-> "pro", CREDITS |-> ProCredits]

\* args.customer?.subscription?.currentPeriodEnd ?? 0
CurrentPeriodEnd(customer) ==
    IF customer = None THEN 0
    ELSE IF customer[1].currentPeriodEnd = None THEN 0
    ELSE customer[1].currentPeriodEnd[1]

\* A period that ends now still counts as running.
getLimitsInclusive(customer, isAnonymous, now) ==
    LET isPro == CurrentPeriodEnd(customer) >= now
    IN  IF isPro /\ ~isAnonymous THEN ProLimits
        ELSE IF ~isPro /\ ~isAnonymous THEN FreeLimits
        ELSE IF ~isPro /\ isAnonymous THEN AnonymousLimits
        ELSE AnonymousLimits

\* getLimits: isPro iff the period end is strictly later than now; the match
\* over {isPro, isAnonymous} falls back to the Anonymous limits.
getLimits(customer, isAnonymous, now) ==
    LET isPro == CurrentPeriodEnd(customer) > now
    IN  IF isPro /\ ~isAnonymous THEN ProLimits
        ELSE IF ~isPro /\ ~isAnonymous THEN FreeLimits
        ELSE IF ~isPro /\ isAnonymous THEN AnonymousLimits
        ELSE AnonymousLimits

----------------------------------------------------------------------------
\* The query layer.

NewThread(userId) ==
    [userId |-> userId, status |-> "ready", streamId |-> Null, title |-> Null]

getThreadById(th, id) == IF id \in DOMAIN th THEN Some(th[id]) ELSE None

getMessageById(ms, id) == IF id \in DOMAIN ms THEN Some(ms[id]) ELSE None

createThread(th, id, userId) == (id :> NewThread(userId)) @@ th

updateThread(th, id, status, streamId) ==
    IF id \in DOMAIN th
    THEN [th EXCEPT ![id].status = status, ![id].streamId = streamId]
    ELSE th

updateMessage(ms, id, now) ==
    IF id \in DOMAIN ms THEN [ms EXCEPT ![id].updatedAt = now] ELSE ms

\* Removes the rows of the thread created after messageCreatedAt, the edited
\* message itself excepted.
deleteTrailingMessages(ms, threadId, messageId, messageCreatedAt) ==
    LET gone == {m \in DOMAIN ms : /\ ms[m].threadId = threadId
                                   /\ ms[m].createdAt > messageCreatedAt
                                   /\ m # messageId}
    IN  [m \in DOMAIN ms \ gone |-> ms[m]]

createMessage(ms, id, threadId, userId, now) ==
    (id :> [threadId |-> threadId, userId |-> userId,
            createdAt |-> now, updatedAt |-> now]) @@ ms

RECURSIVE SortByCreatedAt(_, _)
SortByCreatedAt(ms, ids) ==
    IF ids = {} THEN <<>>
    ELSE LET first == CHOOSE m \in ids :
                          \A n \in ids : ms[m].createdAt <= ms[n].createdAt
         IN  <<[id |-> first, createdAt |-> ms[first].createdAt]>>
                 \o SortByCreatedAt(ms, ids \ {first})

\* The thread's messages, oldest first.
getThreadMessageHistory(ms, threadId) ==
    SortByCreatedAt(ms, {m \in DOMAIN ms : ms[m].threadId = threadId})

----------------------------------------------------------------------------
\* prepareThreadContext

Err(status, message) == [status |-> status, message |-> message]
Ok == [status |-> 200, message |-> "ok"]

ErrNoSettings == Err(404, "Settings for user (userId) does not exist")
ErrNoUsage == Err(404, "Usage for user (userId) does not exist")
ErrNoModel == Err(404, "Model with (modelId) does not exist")
ErrStreaming == Err(400, "Thread is already streaming")
ErrNotOwner == Err(403, "User is not the owner of the thread")
ErrCredits == Err(403, "You have reached your credit limit.")
\* The failure of the query itself, handed on as it is.
ErrPrepareUnmapped == Err(500, "query failed")
ErrPrepare == Err(500, "Failed to prepare thread context")

\* usage.credits || 0
UsedCredits(usage) ==
    IF usage[1].credits = None THEN 0 ELSE usage[1].credits[1]

\* A credit computation that forgets the credits consumed.
RemainingIgnoresUsage(limits, usage, model) ==
    limits.CREDITS - model[1].credits

\* limits.CREDITS - (usage.credits || 0) - model.credits
Remaining(limits, usage, model) ==
    limits.CREDITS - UsedCredits(usage) - model[1].credits

\* The ownership check placed before the conflict check.
ThreadChecksOwnerFirst(a, current, e, limits) ==
    << <<current.userId # a.userId, ErrNotOwner>>,
       <<current.status = "streaming", ErrStreaming>>,
       <<Remaining(limits, e.usage, e.model) < 0, ErrCredits>> >>

\* The credit check placed before the ownership check.
ThreadChecksCreditsFirst(a, current, e, limits) ==
    << <<current.status = "streaming", ErrStreaming>>,
       <<Remaining(limits, e.usage, e.model) < 0, ErrCredits>>,
       <<current.userId # a.userId, ErrNotOwner>> >>

\* The checks on the thread the call goes on with, in the order of the code:
\* each a condition and the error the call fails with when it holds.
ThreadChecks(a, current, e, limits) ==
    << <<current.status = "streaming", ErrStreaming>>,
       <<current.userId # a.userId, ErrNotOwner>>,
       <<Remaining(limits, e.usage, e.model) < 0, ErrCredits>> >>

\* The error of the first check that fails, or Ok.
FirstFailure(checks) ==
    IF \E i \in 1..Len(checks) : checks[i][1]
    THEN LET i == CHOOSE j \in 1..Len(checks) :
                      checks[j][1] /\ \A k \in 1..(j - 1) : ~checks[k][1]
         IN  checks[i][2]
    ELSE Ok

\* The checks between the reads and the write of the status, in the order of
\* the code. The result names the outcome, the writes issued so far and the
\* thread the call goes on with (the row read, or the row createThread made).
Validate(a, thread, e, limits) ==
    LET current == IF thread = None THEN NewThread(a.userId) ELSE thread[1]
        issued == IF thread = None THEN {"createThread"} ELSE {}
    IN  IF ~e.settings THEN [result |-> ErrNoSettings, ops |-> {}, thread |-> thread]
        ELSE IF e.usage = None THEN [result |-> ErrNoUsage, ops |-> {}, thread |-> thread]
        ELSE IF e.model = None THEN [result |-> ErrNoModel, ops |-> {}, thread |-> thread]
        ELSE [result |-> FirstFailure(ThreadChecks(a, current, e, limits)),
              ops |-> issued, thread |-> Some(current)]

\* An outcome that hands back the thread as the status write left it.
PrepareOutcomeReturnsWritten(l, result, ops, history, deleted) ==
    [op |-> "prepare", args |-> l.args, thread |-> l.thread, message |-> l.message,
     env |-> l.env, limits |-> l.limits, ops |-> ops, result |-> result,
     returned |-> IF result = Ok
                  THEN Some([l.current[1] EXCEPT !.status = "streaming",
                                                 !.streamId = l.args.streamId])
                  ELSE None,
     history |-> history, deleted |-> deleted]

\* The outcome handed to the caller of prepareThreadContext, with what the call
\* read, the writes it issued and the rows its truncation removed.
PrepareOutcome(l, result, ops, history, deleted) ==
    [op |-> "prepare", args |-> l.args, thread |-> l.thread, message |-> l.message,
     env |-> l.env, limits |-> l.limits, ops |-> ops, result |-> result,
     returned |-> IF result = Ok THEN l.current ELSE None, history |-> history,
     deleted |-> deleted]

Inflight == Cardinality({p \in Procs : proc[p] # None})

\* The six reads and the validation. A rejected call ends here: its
\* transaction is rolled back, a createThread it issued included.
PrepareBegin(p, A, E) ==
    /\ ret = None
    /\ proc[p] = None
    /\ clock + Inflight < MaxClock
    /\ \E a \in A, e \in E :
        LET thread == getThreadById(threads, a.threadId)
            message == getMessageById(messages, a.messageId)
            limits == getLimits(e.customer, a.isAnonymous, e.now)
            v == Validate(a, thread, e, limits)
            l == [args |-> a, thread |-> thread, message |-> message, env |-> e,
                  limits |-> limits, ops |-> v.ops, current |-> v.thread]
        IN  IF ~e.readsOk
            THEN /\ ret' = Some(PrepareOutcome([l EXCEPT !.current = None],
                                               ErrPrepare, {}, <<>>, {}))
                 /\ UNCHANGED proc
            ELSE IF v.result = Ok
            THEN /\ proc' = [proc EXCEPT ![p] = Some(l)]
                 /\ UNCHANGED ret
            ELSE /\ ret' = Some(PrepareOutcome(l, v.result, v.ops, <<>>, {}))
                 /\ UNCHANGED proc
    /\ UNCHANGED <<threads, messages, clock>>
    /\ UNCHANGED <<streamVars, titleVars>>

\* A status write that leaves the stream id as it was.
StatusWriteKeepsStreamId(th, a) ==
    IF a.threadId \in DOMAIN th
    THEN updateThread(th, a.threadId, "streaming", th[a.threadId].streamId)
    ELSE th

\* queries.updateThread({threadId, status: 'streaming', streamId})
StatusWrite(th, a) == updateThread(th, a.threadId, "streaming", a.streamId)

\* An edit that updates the message and truncates nothing.
EditMessageNoTruncate(ms, a, message, now) == updateMessage(ms, a.messageId, now)

\* The message read was found: updateMessage and deleteTrailingMessages.
EditMessage(ms, a, message, now) ==
    deleteTrailingMessages(updateMessage(ms, a.messageId, now),
                           a.threadId, a.messageId, message[1].createdAt)

\* What the writes of a validated call make of the tables.
PrepareWrites(l, th, ms, now) ==
    LET a == l.args
        th1 == IF "createThread" \in l.ops
               THEN createThread(th, a.threadId, a.userId) ELSE th
        th2 == StatusWrite(th1, a)
        found == l.message # None
        \* [[message]] = ...: the row updateMessage returns, if any
        updated == found /\ a.messageId \in DOMAIN ms
        ms1 == IF found THEN EditMessage(ms, a, l.message, now) ELSE ms
        create == ~updated
        ms2 == IF create
               THEN createMessage(ms1, a.messageId, a.threadId, a.userId, now)
               ELSE ms1
    IN  [threads |-> th2,
         messages |-> ms2,
         \* the rows deleteTrailingMessages removed
         deleted |-> DOMAIN ms \ DOMAIN ms1,
         \* an insert of a key that is already stored fails
         conflict |-> \/ ("createThread" \in l.ops /\ a.threadId \in DOMAIN th)
                      \/ (create /\ a.messageId \in DOMAIN ms1),
         ops |-> l.ops \cup {"updateThread"}
                    \cup (IF found THEN {"updateMessage", "deleteTrailingMessages"}
                          ELSE {})
                    \cup (IF create THEN {"createMessage"} ELSE {})]

\* The writes, the history read and the commit; or a failing write, which
\* rolls the transaction back and reaches the caller as the generic error.
PrepareCommit(p) ==
    /\ ret = None
    /\ proc[p] # None
    /\ LET l == proc[p][1]
           w == PrepareWrites(l, threads, messages, clock)
       IN  \E writesOk \in BOOLEAN :
            IF writesOk /\ ~w.conflict
            THEN /\ threads' = w.threads
                 /\ messages' = w.messages
                 /\ clock' = clock + 1
                 /\ ret' = Some(PrepareOutcome(l, Ok, w.ops,
                              getThreadMessageHistory(w.messages, l.args.threadId),
                              w.deleted))
            ELSE /\ ret' = Some(PrepareOutcome(l, ErrPrepare, w.ops, <<>>, {}))
                 /\ UNCHANGED <<threads, messages, clock>>
    /\ proc' = [proc EXCEPT ![p] = None]
    /\ UNCHANGED <<streamVars, titleVars>>

----------------------------------------------------------------------------
\* saveMessageAndResetThreadStatus: createMessage and updateThread(ready,
\* null) in one transaction, for a thread that exists. An insert of a
\* message id that is stored fails and rolls the reset back.
SaveMessageAndResetThreadStatus(A) ==
    /\ ret = None
    /\ clock + Inflight < MaxClock
    /\ \E a \in A, writesOk \in BOOLEAN :
        /\ a.threadId \in DOMAIN threads
        /\ IF writesOk /\ a.messageId \notin DOMAIN messages
           THEN /\ messages' = createMessage(messages, a.messageId, a.threadId,
                                             a.userId, clock)
                /\ threads' = updateThread(threads, a.threadId, "ready", Null)
                /\ clock' = clock + 1
                /\ ret' = Some([op |-> "save", args |-> a, result |-> Ok])
           ELSE /\ ret' = Some([op |-> "save", args |-> a,
                                result |-> Err(500, "transaction failed")])
                /\ UNCHANGED <<threads, messages, clock>>
    /\ UNCHANGED proc
    /\ UNCHANGED <<streamVars, titleVars>>

----------------------------------------------------------------------------
\* prepareResumeThreadContext

\* A validation that leaves the ownership check out.
ResumeResultNoOwnerCheck(thread, userId) ==
    IF thread = None THEN Err(404, "Thread not found")
    ELSE IF thread[1].status # "streaming" THEN Err(400, "Thread is not streaming")
    ELSE IF thread[1].streamId \in {Null, ""} THEN Err(404, "Thread is not streaming")
    ELSE [status |-> 200, message |-> thread[1].streamId]

\* The checks of prepareResumeThreadContext in the order of the code;
\* !thread.streamId holds of null and of the empty string.
ResumeResult(thread, userId) ==
    IF thread = None THEN Err(404, "Thread not found")
    ELSE IF thread[1].userId # userId THEN ErrNotOwner
    ELSE IF thread[1].status # "streaming" THEN Err(400, "Thread is not streaming")
    ELSE IF thread[1].streamId \in {Null, ""} THEN Err(404, "Thread is not streaming")
    ELSE [status |-> 200, message |-> thread[1].streamId]

PrepareResumeThreadContext ==
    /\ ret = None
    /\ \E threadId \in ThreadIds, userId \in Users :
        ret' = Some([op |-> "resume", threadId |-> threadId, userId |-> userId,
                     result |-> ResumeResult(getThreadById(threads, threadId), userId)])
    /\ UNCHANGED <<threads, messages, clock, proc>>
    /\ UNCHANGED <<streamVars, titleVars>>

\* The caller takes the outcome of the call that returned.
Deliver ==
    /\ ret # None
    /\ ret' = None
    /\ UNCHANGED <<threads, messages, clock, proc>>
    /\ UNCHANGED <<streamVars, titleVars>>

----------------------------------------------------------------------------
\* Inputs.

Usages == {None, Some([credits |-> None])}
              \cup {Some([credits |-> Some(n)]) : n \in 0..MaxUsage}
Models == {None} \cup {Some([credits |-> c]) : c \in 1..MaxCost}
\* The time getLimits reads, in seconds.
Now == 2
Customers == {None, Some([currentPeriodEnd |-> None])}
                 \cup {Some([currentPeriodEnd |-> Some(t)]) : t \in {Now, Now + 1}}

Args == [isAnonymous : BOOLEAN, userId : Users, threadId : ThreadIds,
         streamId : StreamIds, messageId : MessageIds]
Envs == [readsOk : BOOLEAN, settings : BOOLEAN, usage : Usages, model : Models,
         customer : Customers, now : {Now}]

\* Latest time, in seconds, of the calls made to getLimits alone.
MaxTime == 6
\* The customers and times getLimits is called with on its own.
LimitsCustomers == {None, Some([currentPeriodEnd |-> None])}
                       \cup {Some([currentPeriodEnd |-> Some(t)]) : t \in 0..MaxTime}
LimitsTimes == 0..MaxTime

\* The requests of the interleaving specification: signed-in users, a
\* stream id of its own per request slot; every read succeeds and finds its
\* row; the credit check passes (nothing consumed) or fails.
ArgsC(p) == {a \in Args : /\ ~a.isAnonymous
                           /\ a.streamId = (IF p = "p1" THEN "s1" ELSE "s2")}
EnvsC == {e \in Envs : /\ e.readsOk /\ e.settings
                       /\ e.usage \in {Some([credits |-> Some(0)]),
                                       Some([credits |-> Some(1)])}
                       /\ e.model = Some([credits |-> FreeCredits])
                       /\ e.customer = None}

\* The requests of the one-request-at-a-time specification.
ArgsS == {a \in Args : /\ a.threadId = "t1"
                        /\ a.messageId \in {"m1", "m2"}
                        /\ a.streamId \in {"s1", ""}}

SaveArgs == [threadId : ThreadIds, userId : Users, messageId : MessageIds]
SaveArgsC == {a \in SaveArgs : a.userId = "u1"}
SaveArgsS == {a \in SaveArgs : a.messageId \in {"m1", "m2"}}

----------------------------------------------------------------------------
\* The resumable-stream bridge.

\* The stream objects a caller passes to createResumableStream.
Streams == {"streamA", "streamB"}

\* Schedule.recurs(3) of createResumableStream: retries after the first attempt.
CreateRecurs == 3
\* Schedule.recurs(3) of getResumableStream.
GetRecurs == 3
\* Schedule.exponential(Duration.millis(200)): the first delay, doubled per retry.
BaseDelayMillis == 200

\* createResumableStream(streamId, stream) is called.
CreateResumableStream ==
    /\ cr = None
    /\ \E streamId \in StreamIds, stream \in Streams :
        cr' = Some([pc |-> "attempt", streamId |-> streamId, stream |-> stream,
                    attempts |-> 0, failures |-> 0, retries |-> 0,
                    delay |-> BaseDelayMillis, result |-> None])
    /\ UNCHANGED <<streamContext, registry, gr>>
    /\ UNCHANGED <<serviceVars, titleVars>>

\* Effect.catchAll(() => Effect.succeed(stream))
CreateFallback(c) == [kind |-> "original", stream |-> c.stream]

\* A schedule that allows one retry too many.
CreateMayRetryOneMore(c) == c.retries <= CreateRecurs

\* Whether the schedule allows one more retry of createResumableStream.
CreateMayRetry(c) == c.retries < CreateRecurs

\* One run of getStreamContext().createNewResumableStream(streamId, () => stream):
\* it registers the stream, or it throws.
CreateAttempt ==
    /\ cr # None
    /\ cr[1].pc = "attempt"
    /\ streamContext' = TRUE
    /\ LET c == [cr[1] EXCEPT !.attempts = @ + 1]
       IN  \E ok \in BOOLEAN :
            IF ok
            THEN /\ registry' = registry \cup {c.streamId}
                 /\ cr' = Some([c EXCEPT !.pc = "done",
                                !.result = Some([kind |-> "resumable",
                                                 streamId |-> c.streamId,
                                                 attempt |-> c.attempts])])
            ELSE /\ UNCHANGED registry
                 /\ IF CreateMayRetry(c)
                    THEN cr' = Some([c EXCEPT !.pc = "sleep", !.failures = @ + 1])
                    ELSE cr' = Some([c EXCEPT !.pc = "done", !.failures = @ + 1,
                                              !.result = Some(CreateFallback(c))])
    /\ UNCHANGED gr
    /\ UNCHANGED <<serviceVars, titleVars>>

\* The delay of the schedule has passed: the next attempt, the next delay doubled.
CreateBackoff ==
    /\ cr # None
    /\ cr[1].pc = "sleep"
    /\ cr' = Some([cr[1] EXCEPT !.pc = "attempt", !.retries = @ + 1, !.delay = 2 * @])
    /\ UNCHANGED <<streamContext, registry, gr>>
    /\ UNCHANGED <<serviceVars, titleVars>>

\* The caller takes the stream; the stream it was given later ends.
CreateReturn ==
    /\ cr # None
    /\ cr[1].pc = "done"
    /\ cr' = None
    /\ \E ends \in BOOLEAN :
        registry' = IF ends THEN registry \ {cr[1].streamId} ELSE registry
    /\ UNCHANGED <<streamContext, gr>>
    /\ UNCHANGED <<serviceVars, titleVars>>

\* getResumableStream(streamId) is called.
GetResumableStream ==
    /\ gr = None
    /\ \E streamId \in StreamIds :
        gr' = Some([pc |-> "attempt", streamId |-> streamId,
                    attempts |-> 0, failures |-> 0, retries |-> 0,
                    delay |-> BaseDelayMillis, result |-> None])
    /\ UNCHANGED <<streamContext, registry, cr>>
    /\ UNCHANGED <<serviceVars, titleVars>>

\* No catchAll: the last failure reaches the caller.
GetFallbackThrows(g) == [kind |-> "error"]

\* Effect.catchAll(() => Effect.succeed(null))
GetFallback(g) == [kind |-> "null"]

\* Whether the schedule allows one more retry of getResumableStream.
GetMayRetry(g) == g.retries < GetRecurs

\* What getStreamContext().resumableStream(streamId, ...) resolves to: the
\* registered stream, or a stream made from the empty fallback.
Resumed(g, reg) ==
    [kind |-> IF g.streamId \in reg THEN "resumed" ELSE "created",
     streamId |-> g.streamId, attempt |-> g.attempts]

GetAttempt ==
    /\ gr # None
    /\ gr[1].pc = "attempt"
    /\ streamContext' = TRUE
    /\ LET g == [gr[1] EXCEPT !.attempts = @ + 1]
       IN  \E ok \in BOOLEAN :
            IF ok
            THEN gr' = Some([g EXCEPT !.pc = "done",
                                      !.result = Some(Resumed(g, registry))])
            ELSE IF GetMayRetry(g)
            THEN gr' = Some([g EXCEPT !.pc = "sleep", !.failures = @ + 1])
            ELSE gr' = Some([g EXCEPT !.pc = "done", !.failures = @ + 1,
                                      !.result = Some(GetFallback(g))])
    /\ UNCHANGED <<registry, cr>>
    /\ UNCHANGED <<serviceVars, titleVars>>

GetBackoff ==
    /\ gr # None
    /\ gr[1].pc = "sleep"
    /\ gr' = Some([gr[1] EXCEPT !.pc = "attempt", !.retries = @ + 1, !.delay = 2 * @])
    /\ UNCHANGED <<streamContext, registry, cr>>
    /\ UNCHANGED <<serviceVars, titleVars>>

GetReturn ==
    /\ gr # None
    /\ gr[1].pc = "done"
    /\ gr' = None
    /\ UNCHANGED <<streamContext, registry, cr>>
    /\ UNCHANGED <<serviceVars, titleVars>>

NextStream ==
    \/ CreateResumableStream
    \/ CreateAttempt
    \/ CreateBackoff
    \/ CreateReturn
    \/ GetResumableStream
    \/ GetAttempt
    \/ GetBackoff
    \/ GetReturn

----------------------------------------------------------------------------
\* generateThreadTitle and the latch.

Latches == {"l1", "l2"}
Calls == {"g1", "g2"}
\* The texts generateText answers with.
Titles == {"a title"}

\* Effect.makeLatch(open): isOpen, whether a flush of the waiters is scheduled,
\* and the number of generateThreadTitle calls the latch has been passed to.
NewLatch(open) == [isOpen |-> open, scheduled |-> FALSE, calls |-> 0]

Holds(c, l) == gen[c] # None /\ gen[c][1].latch = l

\* A request makes its latch; whoever used the previous one is done with it.
MakeLatch(l) ==
    /\ \A c \in Calls : ~Holds(c, l)
    /\ waiter[l] # "waiting"
    /\ \E open \in BOOLEAN : latch' = [latch EXCEPT ![l] = NewLatch(open)]
    /\ waiter' = [waiter EXCEPT ![l] = "idle"]
    /\ UNCHANGED gen
    /\ UNCHANGED <<serviceVars, streamVars>>

\* A start that does not close the latch.
LatchCloseForgotten(lt) == lt

\* latch.close
LatchClose(lt) == [lt EXCEPT !.isOpen = FALSE]

\* A last step that leaves the latch closed.
LatchOpenForgotten(lt, waiting) == lt

\* latch.open: an open latch stays as it is; a closed one opens and, when
\* fibers wait on it, schedules the flush that resumes them.
LatchOpen(lt, waiting) ==
    IF lt.isOpen THEN lt
    ELSE [lt EXCEPT !.isOpen = TRUE, !.scheduled = lt.scheduled \/ waiting]

\* generateThreadTitle(threadId, message, latch) starts and closes the latch.
\* alone: the latch has been passed to no other call. generated and persisted
\* record whether generateText and updateThreadTitle succeeded.
GenerateThreadTitle(c, l, alone) ==
    /\ gen[c] = None
    /\ latch[l].calls < Cardinality(Calls)
    /\ alone => latch[l].calls = 0
    /\ \E threadId \in ThreadIds :
        gen' = [gen EXCEPT ![c] = Some([pc |-> "generate", threadId |-> threadId,
                                        latch |-> l, text |-> Null,
                                        generated |-> None, persisted |-> None])]
    /\ latch' = [latch EXCEPT ![l] = [LatchClose(@) EXCEPT !.calls = @ + 1]]
    /\ UNCHANGED waiter
    /\ UNCHANGED <<serviceVars, streamVars>>

\* A failure of generateText that leaves the call without a text.
TitleTextKeepsNull(ok, text) == IF ok THEN text ELSE Null

\* The text the call goes on with: the generated text, or '' when generateText failed.
TitleText(ok, text) == IF ok THEN text ELSE ""

\* generateText(...) resolves or rejects.
GenerateText(c) ==
    /\ gen[c] # None
    /\ gen[c][1].pc = "generate"
    /\ \E ok \in BOOLEAN, text \in Titles :
        gen' = [gen EXCEPT ![c] = Some([gen[c][1] EXCEPT !.pc = "persist",
                                                         !.text = TitleText(ok, text),
                                                         !.generated = Some(ok)])]
    /\ UNCHANGED <<latch, waiter>>
    /\ UNCHANGED <<serviceVars, streamVars>>

updateThreadTitle(th, id, title) ==
    IF id \in DOMAIN th THEN [th EXCEPT ![id].title = title] ELSE th

\* queries.updateThreadTitle({threadId, title: text}); a failure is caught.
UpdateThreadTitle(c) ==
    /\ gen[c] # None
    /\ gen[c][1].pc = "persist"
    /\ \E ok \in BOOLEAN :
        /\ threads' = IF ok
                      THEN updateThreadTitle(threads, gen[c][1].threadId, gen[c][1].text)
                      ELSE threads
        /\ gen' = [gen EXCEPT ![c] = Some([gen[c][1] EXCEPT !.pc = "open",
                                                            !.persisted = Some(ok)])]
    /\ UNCHANGED <<latch, waiter>>
    /\ UNCHANGED <<messages, clock, proc, ret>>
    /\ UNCHANGED streamVars

\* yield* latch.open, the last step of the call.
OpenLatch(c) ==
    /\ gen[c] # None
    /\ gen[c][1].pc = "open"
    /\ LET l == gen[c][1].latch
       IN  latch' = [latch EXCEPT ![l] = LatchOpen(@, waiter[l] = "waiting")]
    /\ gen' = [gen EXCEPT ![c] = None]
    /\ UNCHANGED waiter
    /\ UNCHANGED <<serviceVars, streamVars>>

\* The scheduled flush runs: every fiber waiting on the latch is resumed.
FlushWaiters(l) ==
    /\ latch[l].scheduled
    /\ latch' = [latch EXCEPT ![l].scheduled = FALSE]
    /\ waiter' = [waiter EXCEPT ![l] = IF @ = "waiting" THEN "released" ELSE @]
    /\ UNCHANGED gen
    /\ UNCHANGED <<serviceVars, streamVars>>

\* The consumer runs latch.await: it passes an open latch and waits on a closed one.
WaiterAwait(l) ==
    /\ waiter[l] = "idle"
    /\ waiter' = [waiter EXCEPT ![l] = IF latch[l].isOpen THEN "released" ELSE "waiting"]
    /\ UNCHANGED <<latch, gen>>
    /\ UNCHANGED <<serviceVars, streamVars>>

\* Every latch is passed to one generateThreadTitle call.
NextTitle ==
    \/ \E l \in Latches : MakeLatch(l)
    \/ \E c \in Calls, l \in Latches : GenerateThreadTitle(c, l, TRUE)
    \/ \E c \in Calls : GenerateText(c)
    \/ \E c \in Calls : UpdateThreadTitle(c)
    \/ \E c \in Calls : OpenLatch(c)
    \/ \E l \in Latches : FlushWaiters(l)
    \/ \E l \in Latches : WaiterAwait(l)

\* Calls may share a latch.
NextTitleShared ==
    \/ \E l \in Latches : MakeLatch(l)
    \/ \E c \in Calls, l \in Latches : GenerateThreadTitle(c, l, FALSE)
    \/ \E c \in Calls : GenerateText(c)
    \/ \E c \in Calls : UpdateThreadTitle(c)
    \/ \E c \in Calls : OpenLatch(c)
    \/ \E l \in Latches : FlushWaiters(l)
    \/ \E l \in Latches : WaiterAwait(l)

\* getLimits({customer, isAnonymous}) is called and returns.
GetLimits ==
    /\ ret = None
    /\ \E customer \in LimitsCustomers, isAnonymous \in BOOLEAN, now \in LimitsTimes :
        ret' = Some([op |-> "limits", customer |-> customer,
                     isAnonymous |-> isAnonymous, now |-> now,
                     result |-> getLimits(customer, isAnonymous, now)])
    /\ UNCHANGED <<threads, messages, clock, proc>>
    /\ UNCHANGED <<streamVars, titleVars>>

NextLimits ==
    \/ GetLimits
    \/ Deliver

----------------------------------------------------------------------------
\* convertUIMessagesToModelMessages.

\* Most parts of one message, and most messages of one call.
MaxParts == 2
MaxMessages == 2

\* A media type is the sequence of the pieces it is written with, so that
\* startsWith is a comparison of leading pieces.
ApplicationPdf == <<"application/", "pdf">>
TextPlain == <<"text/", "plain">>
Image == <<"image/">>
MediaTypes == {<<"application/", "pdf">>, <<"text/", "plain", "; charset=utf-8">>,
               <<"text/", "html">>, <<"image/", "png">>}

\* mediaType.startsWith(prefix)
StartsWith(mediaType, prefix) ==
    /\ Len(prefix) <= Len(mediaType)
    /\ SubSeq(mediaType, 1, Len(prefix)) = prefix

\* The parts of a message: text parts, and file parts with a media type and
\* the url of their content.
Parts == {[type |-> "text", mediaType |-> <<>>, url |-> Null]}
             \cup {[type |-> "file", mediaType |-> m, url |-> "url"] : m \in MediaTypes}
PartSeqs == UNION {[1..n -> Parts] : n \in 0..MaxParts}
UIMessages == UNION {[1..n -> [parts : PartSeqs]] : n \in 1..MaxMessages}

\* The options argument: left out, or an object with each flag undefined,
\* false or true.
ConvertOptions ==
    {None} \cup {Some(o) : o \in [supportsImages : {None, Some(FALSE), Some(TRUE)},
                                 supportsDocuments : {None, Some(FALSE), Some(TRUE)}]}
\* The default value of the options parameter.
DefaultOptions == [supportsImages |-> Some(FALSE), supportsDocuments |-> Some(FALSE)]

\* !flag
Not(flag) == flag # Some(TRUE)

IsDocument(part) ==
    StartsWith(part.mediaType, ApplicationPdf) \/ StartsWith(part.mediaType, TextPlain)

\* A filter that asks supportsDocuments about images too.
KeepPartImagesAsDocuments(part, options) ==
    IF part.type = "file"
    THEN IF IsDocument(part) /\ Not(options.supportsDocuments) THEN FALSE
         ELSE IF StartsWith(part.mediaType, Image) /\ Not(options.supportsDocuments)
         THEN FALSE
         ELSE TRUE
    ELSE TRUE

\* The predicate of message.parts.filter.
KeepPart(part, options) ==
    IF part.type = "file"
    THEN IF IsDocument(part) /\ Not(options.supportsDocuments) THEN FALSE
         ELSE IF StartsWith(part.mediaType, Image) /\ Not(options.supportsImages)
         THEN FALSE
         ELSE TRUE
    ELSE TRUE

\* message.parts.filter(...)
FilterParts(parts, options) == SelectSeq(parts, LAMBDA part : KeepPart(part, options))

\* The loop over the parts kept: the url of a document part is replaced by
\* the bytes fetched from it.
FetchParts(parts) ==
    [i \in 1..Len(parts) |->
        IF parts[i].type = "file" /\ IsDocument(parts[i])
        THEN [parts[i] EXCEPT !.url = "bytes"]
        ELSE parts[i]]

\* The messages handed to convertToModelMessages, or no result when a fetch
\* rejects and the Effect fails.
convertUIMessagesToModelMessages(uiMessages, optionsArg, fetchOk) ==
    LET options == IF optionsArg = None THEN DefaultOptions ELSE optionsArg[1]
        filtered == [i \in 1..Len(uiMessages) |->
                        [parts |-> FilterParts(uiMessages[i].parts, options)]]
        fetches == \E i \in 1..Len(filtered) : \E j \in 1..Len(filtered[i].parts) :
                        /\ filtered[i].parts[j].type = "file"
                        /\ IsDocument(filtered[i].parts[j])
    IN  IF fetches /\ ~fetchOk THEN None
        ELSE Some([i \in 1..Len(filtered) |-> [parts |-> FetchParts(filtered[i].parts)]])

\* convertUIMessagesToModelMessages(messages, options) is called and returns.
ConvertUIMessages ==
    /\ ret = None
    /\ \E uiMessages \in UIMessages, options \in ConvertOptions, fetchOk \in BOOLEAN :
        ret' = Some([op |-> "convert", messages |-> uiMessages, options |-> options,
                     result |-> convertUIMessagesToModelMessages(uiMessages, options,
                                                                 fetchOk)])
    /\ UNCHANGED <<threads, messages, clock, proc>>
    /\ UNCHANGED <<streamVars, titleVars>>

NextConvert ==
    \/ ConvertUIMessages
    \/ Deliver

InitService ==
    /\ threads = <<>>
    /\ messages = <<>>
    /\ clock = 1
    /\ proc = [p \in Procs |-> None]
    /\ ret = None

InitStream ==
    /\ streamContext = FALSE
    /\ registry = {}
    /\ cr = None
    /\ gr = None

InitTitle ==
    /\ latch = [l \in Latches |-> NewLatch(FALSE)]
    /\ gen = [c \in Calls |-> None]
    /\ waiter = [l \in Latches |-> "idle"]

Init == InitService /\ InitStream /\ InitTitle

Next ==
    \/ \E p \in Procs : PrepareBegin(p, ArgsC(p), EnvsC)
    \/ \E p \in Procs : PrepareCommit(p)
    \/ SaveMessageAndResetThreadStatus(SaveArgsC)
    \/ PrepareResumeThreadContext
    \/ Deliver

Spec == Init /\ [][Next]_vars

NextSeq ==
    \/ PrepareBegin("p1", ArgsS, Envs)
    \/ PrepareCommit("p1")
    \/ SaveMessageAndResetThreadStatus(SaveArgsS)
    \/ PrepareResumeThreadContext
    \/ Deliver

SpecSeq == Init /\ [][NextSeq]_vars

SpecStream == Init /\ [][NextStream]_vars

SpecLimits == Init /\ [][NextLimits]_vars

SpecConvert == Init /\ [][NextConvert]_vars

\* Title generation runs on threads that exist.
InitT ==
    /\ threads = [t \in ThreadIds |-> NewThread("u1")]
    /\ messages = <<>>
    /\ clock = 1
    /\ proc = [p \in Procs |-> None]
    /\ ret = None
    /\ InitStream
    /\ InitTitle

SpecTitle == InitT /\ [][NextTitle]_vars

SpecTitleShared == InitT /\ [][NextTitleShared]_vars

\* The runtime goes on running every fiber that can take a step: a started
\* call gets its answer from generateText and from updateThreadTitle and then
\* runs latch.open, and a scheduled flush of the waiters runs.
TitleFairness ==
    /\ \A c \in Calls : /\ WF_vars(GenerateText(c))
                        /\ WF_vars(UpdateThreadTitle(c))
                        /\ WF_vars(OpenLatch(c))
    /\ \A l \in Latches : WF_vars(FlushWaiters(l))

SpecTitleLive == InitT /\ [][NextTitle]_vars /\ TitleFairness

----------------------------------------------------------------------------
\* Properties.

\* The call that has just returned is a prepareThreadContext call.
PrepareReturned == ret # None /\ ret[1].op = "prepare"

\* Its reads succeeded and found the settings, the usage and the model.
RowsFound(r) ==
    r.env.readsOk /\ r.env.settings /\ r.env.usage # None /\ r.env.model # None

\* C1: a prepareThreadContext call never succeeds on a thread that a
\* successful earlier call still holds in 'streaming' (no reset to 'ready' has
\* followed), so no two requests hold the thread's stream at the same time.
C1_OneActiveStream ==
    [][(ret = None /\ ret' # None /\ ret'[1].op = "prepare" /\ ret'[1].result = Ok)
          => LET t == ret'[1].args.threadId
             IN  ~(t \in DOMAIN threads /\ threads[t].status = "streaming")]_vars

\* C2 as stated: a call on a thread stored as 'streaming' fails with the
\* conflict error whatever its other inputs are.
C2_Original ==
    (PrepareReturned /\ ret[1].thread # None /\ ret[1].thread[1].status = "streaming")
        => ret[1].result = ErrStreaming

\* C2, amended: a call on a thread stored as 'streaming' never succeeds and
\* never reaches its writes; it fails with the conflict error whenever its
\* reads succeed and find the settings, the usage and the model (the 404
\* checks and a failing read come first), whoever calls and whatever the
\* credit balance is.
C2_StreamingConflict ==
    /\ (PrepareReturned /\ ret[1].thread # None
            /\ ret[1].thread[1].status = "streaming")
        => /\ ret[1].result \in {ErrStreaming, ErrNoSettings, ErrNoUsage,
                                 ErrNoModel, ErrPrepare}
           /\ RowsFound(ret[1]) => ret[1].result = ErrStreaming
           /\ ~ret[1].env.readsOk => ret[1].result = ErrPrepare
    /\ \A p \in Procs :
        (proc[p] # None /\ proc[p][1].thread # None)
            => proc[p][1].thread[1].status # "streaming"

\* A non-owner whose credits are exhausted gets the conflict error on a
\* streaming thread.
C2_Witness ==
    /\ PrepareReturned
    /\ ret[1].thread # None
    /\ ret[1].thread[1].status = "streaming"
    /\ ret[1].thread[1].userId # ret[1].args.userId
    /\ RowsFound(ret[1])
    /\ ret[1].limits.CREDITS - UsedCredits(ret[1].env.usage)
           - ret[1].env.model[1].credits < 0
    /\ ret[1].result = ErrStreaming

\* The caller of the returned call does not own the thread it names.
NonOwnerReturned ==
    /\ PrepareReturned
    /\ ret[1].thread # None
    /\ ret[1].thread[1].userId # ret[1].args.userId

\* C3 as stated: a caller who does not own the existing thread gets the
\* ownership error, and no write has been issued.
C3_Original ==
    NonOwnerReturned => (ret[1].result = ErrNotOwner /\ ret[1].ops = {})

\* C3, amended: a caller who does not own the existing thread always fails and
\* no write has been issued or applied; the error is the ownership error
\* whenever the reads succeed and find the settings, the usage and the model
\* and the thread is not streaming (the 404 checks, a failing read and the
\* conflict check come first).
C3_NonOwnerRejected ==
    /\ [](NonOwnerReturned
            => /\ ret[1].result \in {ErrNotOwner, ErrStreaming, ErrNoSettings,
                                     ErrNoUsage, ErrNoModel, ErrPrepare}
               /\ ret[1].ops = {}
               /\ (RowsFound(ret[1]) /\ ret[1].thread[1].status # "streaming")
                    => ret[1].result = ErrNotOwner)
    /\ [](\A p \in Procs :
            (proc[p] # None /\ proc[p][1].thread # None)
                => proc[p][1].thread[1].userId = proc[p][1].args.userId)
    /\ [][(ret = None /\ ret' # None /\ ret'[1].op = "prepare"
             /\ ret'[1].thread # None
             /\ ret'[1].thread[1].userId # ret'[1].args.userId)
            => (threads' = threads /\ messages' = messages)]_vars

\* A non-owner is turned away with the ownership error from a thread that
\* holds messages.
C3_Witness ==
    /\ NonOwnerReturned
    /\ ret[1].result = ErrNotOwner
    /\ ret[1].ops = {}
    /\ \E m \in DOMAIN messages : messages[m].threadId = ret[1].args.threadId

\* C4: when prepareThreadContext succeeds the stored thread is 'streaming'
\* with the request's stream id; when the credit check rejects the call the
\* stored thread is as it was read: 'ready' with no stream id (or still
\* absent, when the call would have created it).
C4_StatusAfterPrepare ==
    PrepareReturned =>
        LET r == ret[1]
            t == r.args.threadId
        IN  /\ r.result = Ok
                => /\ t \in DOMAIN threads
                   /\ threads[t].status = "streaming"
                   /\ threads[t].streamId = r.args.streamId
            /\ r.result = ErrCredits
                => /\ getThreadById(threads, t) = r.thread
                   /\ t \in DOMAIN threads
                        => (threads[t].status = "ready" /\ threads[t].streamId = Null)

\* The credit check rejects a call on a stored thread that has streamed before.
C4_Witness ==
    /\ PrepareReturned
    /\ ret[1].result = ErrCredits
    /\ ret[1].args.threadId \in DOMAIN threads
    /\ threads[ret[1].args.threadId].status = "ready"
    /\ \E m \in DOMAIN messages : messages[m].threadId = ret[1].args.threadId

\* limit - usage - cost of a call, with an absent credit count taken as 0.
CreditsLeft(limits, usage, model) ==
    limits.CREDITS
        - (IF usage[1].credits = None THEN 0 ELSE usage[1].credits[1])
        - model[1].credits

\* The returned call got as far as the credit check.
ReachedCreditCheck(r) ==
    /\ RowsFound(r)
    /\ r.thread # None
        => (r.thread[1].status # "streaming" /\ r.thread[1].userId = r.args.userId)

\* C5: the credit check rejects a call (403, credit limit) exactly when
\* limit - usage - cost < 0; with limit - usage - cost = 0 the call passes
\* the check and goes on to its writes.
C5_CreditCheck ==
    /\ PrepareReturned
        => /\ ret[1].result = ErrCredits
                => /\ ReachedCreditCheck(ret[1])
                   /\ CreditsLeft(ret[1].limits, ret[1].env.usage, ret[1].env.model) < 0
           /\ (ReachedCreditCheck(ret[1])
                 /\ CreditsLeft(ret[1].limits, ret[1].env.usage, ret[1].env.model) < 0)
                => ret[1].result = ErrCredits
           /\ (ReachedCreditCheck(ret[1])
                 /\ CreditsLeft(ret[1].limits, ret[1].env.usage, ret[1].env.model) >= 0)
                => ret[1].result \in {Ok, ErrPrepare}
    /\ \A p \in Procs :
        proc[p] # None
            => CreditsLeft(proc[p][1].limits, proc[p][1].env.usage,
                           proc[p][1].env.model) >= 0

\* A call whose credits come out at exactly 0 has passed the check and succeeds.
C5_Witness ==
    /\ PrepareReturned
    /\ ret[1].result = Ok
    /\ CreditsLeft(ret[1].limits, ret[1].env.usage, ret[1].env.model) = 0
    /\ ret[1].env.usage[1].credits # None
    /\ ret[1].env.usage[1].credits[1] > 0

\* C6: when prepareThreadContext succeeds for a message id that was found,
\* no other message of the thread is left that was created after the edited
\* message: not in the table, not in the history the call returns.
C6_TruncateOnEdit ==
    (PrepareReturned /\ ret[1].result = Ok /\ ret[1].message # None)
        => LET r == ret[1]
               edited == r.message[1].createdAt
           IN  /\ \A m \in DOMAIN messages :
                    (messages[m].threadId = r.args.threadId /\ m # r.args.messageId)
                        => messages[m].createdAt <= edited
               /\ \A i \in 1..Len(r.history) :
                    r.history[i].id # r.args.messageId
                        => r.history[i].createdAt <= edited
               /\ r.history = getThreadMessageHistory(messages, r.args.threadId)

\* An edit of a message of the thread has removed a later message.
C6_Witness ==
    /\ PrepareReturned
    /\ ret[1].result = Ok
    /\ ret[1].message # None
    /\ ret[1].message[1].threadId = ret[1].args.threadId
    /\ ret[1].deleted # {}
    /\ Len(ret[1].history) >= 1

\* C7: createResumableStream never fails. It makes at most 4 registration
\* attempts (one and up to 3 retries), ends at the first attempt that
\* succeeds with that attempt's resumable stream, and after 4 failed attempts
\* in a row returns the stream its caller passed.
C7_CreateResumableStream ==
    cr # None =>
        LET c == cr[1]
        IN  /\ c.attempts <= 4
            /\ c.retries <= 3
            /\ c.pc # "done" => (c.failures = c.attempts /\ c.result = None)
            /\ c.pc = "done"
                => /\ c.result # None
                   /\ \/ /\ c.result[1] = [kind |-> "resumable",
                                           streamId |-> c.streamId,
                                           attempt |-> c.attempts]
                         /\ c.failures = c.attempts - 1
                      \/ /\ c.result[1] = [kind |-> "original", stream |-> c.stream]
                         /\ c.failures = 4
                         /\ c.attempts = 4

\* Four attempts have failed and the call ends with the caller's own stream.
C7_Witness ==
    /\ cr # None
    /\ cr[1].pc = "done"
    /\ cr[1].failures = 4
    /\ cr[1].result = Some([kind |-> "original", stream |-> cr[1].stream])

\* C8: getResumableStream never fails. It makes at most 4 resumption attempts
\* (one and up to 3 retries), returns what the first attempt that succeeds
\* resolved to, and returns null when all its attempts have failed.
C8_GetResumableStream ==
    gr # None =>
        LET g == gr[1]
        IN  /\ g.attempts <= 4
            /\ g.retries <= 3
            /\ g.pc # "done" => (g.failures = g.attempts /\ g.result = None)
            /\ g.pc = "done"
                => /\ g.result # None
                   /\ \/ /\ g.result[1].kind \in {"resumed", "created"}
                         /\ g.result[1].streamId = g.streamId
                         /\ g.result[1].attempt = g.attempts
                         /\ g.failures = g.attempts - 1
                      \/ /\ g.result[1] = [kind |-> "null"]
                         /\ g.failures = 4
                         /\ g.attempts = 4

\* Four attempts have failed and the call ends with null, while the stream
\* asked for is registered.
C8_Witness ==
    /\ gr # None
    /\ gr[1].pc = "done"
    /\ gr[1].failures = 4
    /\ gr[1].result = Some([kind |-> "null"])
    /\ gr[1].streamId \in registry

\* The call that has just returned is a prepareResumeThreadContext call.
ResumeReturned == ret # None /\ ret[1].op = "resume"

\* C9: prepareResumeThreadContext returns the stored stream id exactly when
\* the thread exists, is owned by the caller, is 'streaming' and has a stream
\* id recorded; otherwise it fails with 404 (no thread), 403 (not the owner),
\* 400 (not streaming), 404 (no stream id), the first that applies; and it
\* changes no stored state.
C9_ResumeContext ==
    /\ [](ResumeReturned =>
            LET r == ret[1]
                t == r.threadId
                exists == t \in DOMAIN threads
                owned == exists /\ threads[t].userId = r.userId
                streaming == exists /\ threads[t].status = "streaming"
                recorded == exists /\ threads[t].streamId # Null
                                /\ threads[t].streamId # ""
            IN  /\ r.result.status = 200
                    <=> (exists /\ owned /\ streaming /\ recorded)
                /\ r.result.status = 200 => r.result.message = threads[t].streamId
                /\ ~exists => r.result = Err(404, "Thread not found")
                /\ (exists /\ ~owned)
                    => r.result = Err(403, "User is not the owner of the thread")
                /\ (owned /\ ~streaming)
                    => r.result = Err(400, "Thread is not streaming")
                /\ (owned /\ streaming /\ ~recorded)
                    => r.result = Err(404, "Thread is not streaming"))
    /\ [][(ret = None /\ ret' # None /\ ret'[1].op = "resume")
            => (threads' = threads /\ messages' = messages)]_vars

\* The owner of a streaming thread gets its stream id back.
C9_Witness ==
    /\ ResumeReturned
    /\ ret[1].result = [status |-> 200, message |-> "s1"]
    /\ threads[ret[1].threadId].streamId = "s1"

\* The call has started and its title is not persisted yet.
Titling(c) == gen[c] # None /\ gen[c][1].pc \in {"generate", "persist"}

\* C10: from the start of a generateThreadTitle call until its
\* updateThreadTitle step has ended, the latch passed to it is closed and no
\* waiter on that latch is released.
C10_LatchGate ==
    /\ [](\A c \in Calls : Titling(c) => ~latch[gen[c][1].latch].isOpen)
    /\ [][\A c \in Calls :
            (Titling(c) \/ Titling(c)')
                => LET l == IF gen[c] # None THEN gen[c][1].latch ELSE gen'[c][1].latch
                   IN  ~(waiter[l] # "released" /\ waiter'[l] = "released")]_vars

\* A waiter is blocked on the latch while the call persists a generated title.
C10_Witness ==
    \E c \in Calls :
        /\ gen[c] # None
        /\ gen[c][1].pc = "persist"
        /\ gen[c][1].text \in Titles
        /\ waiter[gen[c][1].latch] = "waiting"

\* The call that has just returned is a getLimits call.
LimitsReturned == ret # None /\ ret[1].op = "limits"

\* The customer has a subscription whose period ends strictly after t.
EndsAfter(customer, t) ==
    /\ customer # None
    /\ customer[1].currentPeriodEnd # None
    /\ customer[1].currentPeriodEnd[1] > t

\* C11: getLimits returns the Pro limits exactly when the subscription's
\* period end is strictly later than now and the user is not anonymous; with
\* the end absent or not later than now it returns the Free limits to a
\* signed-in user and the Anonymous limits to an anonymous one; an anonymous
\* user gets the Anonymous limits whatever the subscription.
C11_GetLimits ==
    LimitsReturned =>
        LET r == ret[1]
            running == EndsAfter(r.customer, r.now)
        IN  /\ r.result = [tier |-> "pro", CREDITS |-> ProCredits]
                <=> (running /\ ~r.isAnonymous)
            /\ (~running /\ ~r.isAnonymous)
                => r.result = [tier |-> "free", CREDITS |-> FreeCredits]
            /\ r.isAnonymous
                => r.result = [tier |-> "anonymous", CREDITS |-> AnonymousCredits]

\* A signed-in user whose period ends exactly now gets the Free limits.
C11_Witness ==
    /\ LimitsReturned
    /\ ~ret[1].isAnonymous
    /\ ret[1].customer = Some([currentPeriodEnd |-> Some(ret[1].now)])
    /\ ret[1].result = FreeLimits

\* The failures prepareThreadContext raises itself, each with its condition
\* on what the call read.
ValidationErrors(r) ==
    LET e == r.env
        current == IF r.thread = None
                   THEN [userId |-> r.args.userId, status |-> "ready"]
                   ELSE r.thread[1]
    IN  << <<Err(404, "Settings for user (userId) does not exist"), ~e.settings>>,
           <<Err(404, "Usage for user (userId) does not exist"),
             e.settings /\ e.usage = None>>,
           <<Err(404, "Model with (modelId) does not exist"),
             e.settings /\ e.usage # None /\ e.model = None>>,
           <<Err(400, "Thread is already streaming"),
             RowsFound(r) /\ current.status = "streaming">>,
           <<Err(403, "User is not the owner of the thread"),
             RowsFound(r) /\ current.userId # r.args.userId>>,
           <<Err(403, "You have reached your credit limit."),
             RowsFound(r) /\ CreditsLeft(r.limits, e.usage, e.model) < 0>> >>

\* C12: a validation failure of prepareThreadContext (the three 404s, the 400,
\* the two 403s) reaches the caller as it was raised, and only when its
\* condition holds; a failing read or write inside the transaction reaches the
\* caller as the 500 'Failed to prepare thread context'; the call fails with
\* no other error.
C12_ErrorPropagation ==
    PrepareReturned =>
        LET r == ret[1]
            generic == Err(500, "Failed to prepare thread context")
            v == ValidationErrors(r)
            raised == {v[i][1] : i \in 1..Len(v)}
            wrote == "updateThread" \in r.ops
        IN  /\ r.result \in {Ok, generic} \cup raised
            /\ ~r.env.readsOk => r.result = generic
            /\ (r.env.readsOk /\ ~wrote)
                => /\ r.result \in raised
                   /\ \A i \in 1..Len(v) : r.result = v[i][1] => v[i][2]
                   /\ \A i \in 1..3 : v[i][2] => r.result = v[i][1]
            /\ wrote => r.result \in {Ok, generic}
            /\ r.result = generic => (~r.env.readsOk \/ wrote)

\* A write fails after every check has passed: the caller gets the generic 500.
C12_Witness ==
    /\ PrepareReturned
    /\ ret[1].env.readsOk
    /\ "updateThread" \in ret[1].ops
    /\ ret[1].result = Err(500, "Failed to prepare thread context")

\* C13: a generateThreadTitle call that has closed its latch eventually runs
\* latch.open, whether generateText and updateThreadTitle succeed or fail, and
\* a waiter blocked on the latch of a running call is eventually released.
C13_LatchReopens ==
    /\ \A c \in Calls, l \in Latches :
        Holds(c, l) ~> (~Holds(c, l) /\ latch[l].isOpen)
    /\ \A l \in Latches :
        (waiter[l] = "waiting" /\ \E c \in Calls : Holds(c, l))
            ~> (waiter[l] = "released")

\* After generateText and updateThreadTitle both failed, the call is about to
\* open the latch a waiter is blocked on.
C13_Witness ==
    \E c \in Calls :
        /\ gen[c] # None
        /\ gen[c][1].pc = "open"
        /\ gen[c][1].generated = Some(FALSE)
        /\ gen[c][1].persisted = Some(FALSE)
        /\ ~latch[gen[c][1].latch].isOpen
        /\ waiter[gen[c][1].latch] = "waiting"

\* C14: a latch passed to two interleaved generateThreadTitle calls does not
\* gate the second title: the latch can be open, and a waiter on it released,
\* while a call has not finished persisting (C14_Witness is such a state);
\* and that is the only way it happens: whenever a latch is open during a
\* call's generation or persistence, it has been passed to a second call.
C14_SharedLatchExposes ==
    \A c \in Calls :
        (Titling(c) /\ latch[gen[c][1].latch].isOpen)
            => latch[gen[c][1].latch].calls >= 2

\* The first call has ended and opened the shared latch, the waiter is
\* released, and the second call has still to persist its generated title.
C14_Witness ==
    \E c \in Calls :
        /\ gen[c] # None
        /\ gen[c][1].pc = "persist"
        /\ gen[c][1].text \in Titles
        /\ \A d \in Calls \ {c} : gen[d] = None
        /\ latch[gen[c][1].latch].calls = 2
        /\ latch[gen[c][1].latch].isOpen
        /\ waiter[gen[c][1].latch] = "released"

\* The call is at the given step.
At(c, pc) == gen[c] # None /\ gen[c][1].pc = pc

\* C15: when generateText fails, the call neither fails nor skips the
\* persistence: it goes on with the empty string as its text and issues
\* updateThreadTitle with it, so that the update, when it succeeds, leaves the
\* thread's stored title empty.
C15_EmptyTitleOnFailure ==
    /\ [][\A c \in Calls :
            (At(c, "generate") /\ gen'[c] # gen[c])
                => /\ At(c, "persist")'
                   /\ gen'[c][1].generated \in {Some(TRUE), Some(FALSE)}
                   /\ gen'[c][1].generated = Some(FALSE) => gen'[c][1].text = ""]_vars
    /\ [][\A c \in Calls :
            (At(c, "persist") /\ gen[c][1].generated = Some(FALSE) /\ gen'[c] # gen[c])
                => /\ At(c, "open")'
                   /\ gen'[c][1].persisted \in {Some(TRUE), Some(FALSE)}
                   /\ gen'[c][1].persisted = Some(TRUE)
                        => threads'[gen[c][1].threadId].title = ""]_vars

\* generateText failed and the update went through: the stored title is empty.
C15_Witness ==
    \E c \in Calls :
        /\ At(c, "open")
        /\ gen[c][1].generated = Some(FALSE)
        /\ gen[c][1].persisted = Some(TRUE)
        /\ threads[gen[c][1].threadId].title = ""

\* C16: with threads created 'ready' without a stream id and requests that
\* carry a non-empty stream id, committed prepareThreadContext and
\* saveMessageAndResetThreadStatus calls keep every thread 'streaming' exactly
\* when a stream id is recorded for it; so prepareResumeThreadContext never
\* fails with the 404 of a streaming thread without a stream id.
C16_StreamingIffStreamId ==
    /\ \A t \in DOMAIN threads :
        threads[t].status = "streaming" <=> threads[t].streamId \notin {Null, ""}
    /\ ResumeReturned => ret[1].result # Err(404, "Thread is not streaming")

\* One thread streams under the id of its request, the other has been reset
\* by a save, and the resume of the streaming one returns its stream id.
C16_Witness ==
    /\ ResumeReturned
    /\ ret[1].result.status = 200
    /\ \E t, u \in DOMAIN threads :
        /\ t = ret[1].threadId
        /\ threads[t].status = "streaming"
        /\ threads[t].streamId = "s2"
        /\ threads[u].status = "ready"
        /\ threads[u].streamId = Null
        /\ \E m \in DOMAIN messages : messages[m].threadId = u

\* C17: a successful prepareThreadContext call writes the message by exactly
\* one path: updateMessage with deleteTrailingMessages when the message read
\* was found, createMessage when it was not; never both and never neither.
C17_OneWritePath ==
    (PrepareReturned /\ ret[1].result = Ok)
        => /\ ("updateMessage" \in ret[1].ops) # ("createMessage" \in ret[1].ops)
           /\ "updateMessage" \in ret[1].ops <=> ret[1].message # None
           /\ "deleteTrailingMessages" \in ret[1].ops <=> "updateMessage" \in ret[1].ops

\* C18: prepareThreadContext modifies messages of the thread named in the
\* request only: a successful call leaves every message of every other thread
\* as it was, and when the message id of the request is that of a message of
\* another thread, no message of the requested thread is deleted on the
\* strength of that message's creation time.
C18_OnlyNamedThread ==
    [][(ret = None /\ ret' # None /\ ret'[1].op = "prepare" /\ ret'[1].result = Ok)
          => LET r == ret'[1]
                 t == r.args.threadId
             IN  /\ \A m \in DOMAIN messages :
                        messages[m].threadId # t
                            => (m \in DOMAIN messages' /\ messages'[m] = messages[m])
                 /\ (r.message # None /\ r.message[1].threadId # t)
                        => r.deleted = {}]_vars

\* C19: the thread a successful prepareThreadContext call returns is the row
\* read, or created, before the status write: its status is not 'streaming'
\* and its stream id is not the request's, while the stored thread is
\* 'streaming' under the request's stream id.
C19_ReturnedSnapshot ==
    (PrepareReturned /\ ret[1].result = Ok)
        => LET r == ret[1]
               t == r.args.threadId
           IN  /\ r.returned # None
               /\ r.returned[1].status # "streaming"
               /\ r.returned[1].streamId # r.args.streamId
               /\ r.returned[1].userId = r.args.userId
               /\ threads[t].status = "streaming"
               /\ threads[t].streamId = r.args.streamId

\* The call found a stored thread that had streamed before: it returns that
\* row, 'ready' and without a stream id.
C19_Witness ==
    /\ PrepareReturned
    /\ ret[1].result = Ok
    /\ ret[1].thread # None
    /\ ret[1].returned = ret[1].thread
    /\ ret[1].returned[1].status = "ready"
    /\ ret[1].returned[1].streamId = Null
    /\ threads[ret[1].args.threadId].streamId = "s2"

\* The call that has just returned is a convertUIMessagesToModelMessages call.
ConvertReturned == ret # None /\ ret[1].op = "convert"

\* The option is set: the options object was passed and holds true for it.
DocumentsSet(options) == options # None /\ options[1].supportsDocuments = Some(TRUE)
ImagesSet(options) == options # None /\ options[1].supportsImages = Some(TRUE)

\* C20: convertUIMessagesToModelMessages keeps every non-file part, removes a
\* file part whose media type starts with 'application/pdf' or 'text/plain'
\* exactly when supportsDocuments is not set, removes a file part whose media
\* type starts with 'image/' exactly when supportsImages is not set, keeps
\* every other file part, and keeps the parts in their order; with no options
\* argument every document part and every image part is removed.
C20_FilterParts ==
    (ConvertReturned /\ ret[1].result # None)
        => LET in == ret[1].messages
               out == ret[1].result[1]
               o == ret[1].options
               Document(p) == \/ StartsWith(p.mediaType, <<"application/", "pdf">>)
                              \/ StartsWith(p.mediaType, <<"text/", "plain">>)
               Removed(p) ==
                   /\ p.type = "file"
                   /\ \/ Document(p) /\ ~DocumentsSet(o)
                      \/ StartsWith(p.mediaType, <<"image/">>) /\ ~ImagesSet(o)
           IN  /\ Len(out) = Len(in)
               /\ \A i \in 1..Len(in) :
                    LET K == {j \in 1..Len(in[i].parts) : ~Removed(in[i].parts[j])}
                        Nth(n) == CHOOSE j \in K : Cardinality({k \in K : k < j}) = n - 1
                    IN  /\ Len(out[i].parts) = Cardinality(K)
                        /\ \A n \in 1..Len(out[i].parts) :
                            /\ out[i].parts[n].type = in[i].parts[Nth(n)].type
                            /\ out[i].parts[n].mediaType = in[i].parts[Nth(n)].mediaType
               /\ o = None
                    => \A i \in 1..Len(out) : \A n \in 1..Len(out[i].parts) :
                          /\ ~Document(out[i].parts[n])
                          /\ ~StartsWith(out[i].parts[n].mediaType, <<"image/">>)

\* With supportsImages set and supportsDocuments left undefined, a message of
\* a document and an image comes back with the image alone; the message after
\* it keeps its html file and its text in their order.
C20_Witness ==
    /\ ConvertReturned
    /\ ret[1].options = Some([supportsImages |-> Some(TRUE), supportsDocuments |-> None])
    /\ ret[1].result # None
    /\ Len(ret[1].messages) = 2
    /\ LET in == ret[1].messages
           out == ret[1].result[1]
       IN  /\ Len(in[1].parts) = 2
           /\ in[1].parts[1].mediaType = <<"text/", "plain", "; charset=utf-8">>
           /\ in[1].parts[2].mediaType = <<"image/", "png">>
           /\ out[1].parts = <<in[1].parts[2]>>
           /\ Len(in[2].parts) = 2
           /\ in[2].parts[1].mediaType = <<"text/", "html">>
           /\ in[2].parts[2].type = "text"
           /\ out[2].parts = in[2].parts

====
